---------------------------- MODULE Spec2Model ----------------------------
(***************************************************************************)
(* Real-time sync core of strudel-flow: the per-document Room Actor        *)
(* (ProjectDurableObject), the relay upgrade endpoint, the access gate     *)
(* with its invite lifecycle (ProjectService + project routes) and the     *)
(* client sync session (useYjsSync + createYjsClient).                     *)
(*                                                                         *)
(* A Replica (Y.Doc) is modelled by the set of update operations it has    *)
(* integrated: Y.applyUpdate is set union (commutative, idempotent), and   *)
(* Y.encodeStateAsUpdate is the whole set.                                 *)
(***************************************************************************)
EXTENDS Integers, Sequences, FiniteSets, TLC

\* ------------------------------------------------------------------ bounds
MaxEdits == 2        \* user edits made over all sessions
MaxQueue == 2        \* frames in flight per direction of one connection
MaxJunk == 1         \* non-delta frames (string / malformed) sent over all connections
MaxRestarts == 1     \* evictions / crashes of the Room Actor
MaxRequests == 3     \* invite requests (create, revoke, join) served over a run
MaxClock == 2        \* the clock stops here
MaxMounts == 2       \* runs of the hook's setup effect per session

\* ------------------------------------------------------- relational rows
Users == {"u1", "u2", "u3", "u4"}
ProjectId == "p1"
\* the project row: owner u1, owned by organization o1 whose only member is u2
ProjectRow == [id |-> ProjectId, ownerId |-> "u1", organizationId |-> "o1"]
OrgMemberRows == {[userId |-> "u2", organizationId |-> "o1"]}

\* one browser session per user
Sessions == {"c1", "c2", "c3", "c4"}
\* the sessions whose user edits the graph (c3's user is a viewer)
Editing == {"c1", "c3"}
\* the sessions of each specification
RelaySessions == {"c1", "c3", "c4"}
LiveSessions == {"c1", "c2"}
SendSessions == {"c1", "c2", "c3"}
\* the sessions that edit in the specification of the apply order
Writers == {"c1", "c2"}
UserOf(c) ==
    CASE c = "c1" -> "u1"
      [] c = "c2" -> "u2"
      [] c = "c3" -> "u3"
      [] OTHER    -> "u4"

\* ctx.storage.get("doc") is undefined
NoSnapshot == [present |-> FALSE, ops |-> {}]
\* the value ctx.storage.put("doc", update) writes
Snapshot(update) == [present |-> TRUE, ops |-> update.ops]
NoRole == "none"

\* requests to the invite routes that can be in flight together
Reqs == {"r1", "r2"}
\* createInvite: expiresAt = now + 24 h, one unit of the clock
InviteLifetime == 1
\* the result of a select that matched no row
NoInvite ==
    [id |-> 0, token |-> 0, role |-> NoRole, hasMaxUses |-> FALSE, maxUses |-> 0,
     uses |-> 0, expiresAt |-> 0]
\* a project_invite row of ProjectId written outside createInvite: max_uses set
SeedInvite(limited) ==
    [id |-> 1, token |-> 1, role |-> "editor", hasMaxUses |-> limited,
     maxUses |-> IF limited THEN 1 ELSE 0, uses |-> 0, expiresAt |-> InviteLifetime]
\* a request slot with no request in it
IdleReq ==
    [pc |-> "idle", kind |-> "none", user |-> "none", role |-> NoRole,
     invite |-> NoInvite, token |-> 0, now |-> 0, status |-> 0,
     body |-> NoSnapshot]

VARIABLES
    \* Room Actor (ProjectDurableObject)
    phase,        \* "loading" while blockConcurrencyWhile runs, then "ready"
    doc,          \* this.doc, the authoritative Replica
    clients,      \* this.clients (keys)
    sockets,      \* ctx.getWebSockets(): accepted server sockets
    readyState,   \* readyState of each server socket
    stored,       \* ctx.storage "doc": the persisted Snapshot, or NoSnapshot
    alarmSet,     \* ctx.storage alarm is scheduled
    restarts,     \* number of restarts so far (bounded)
    \* the wire
    s2c,          \* frames sent by the Room Actor, not yet received by the session
    c2s,          \* frames sent by the session, not yet handled by the Room Actor
    upgradeStatus,\* HTTP status of the session's last upgrade request (0: none yet)
    \* client sync session (useYjsSync / createYjsClient)
    ydoc,         \* the session's local Replica
    storeAhead,   \* the Zustand store holds a user edit that is not in ydoc
    syncToYjsRef, \* syncToYjsRef.current
    effectPending,\* nodes/edges changed and the sync effect has not run yet
    wsconnected,  \* wsProvider.wsconnected
    txCount,      \* number of user edits made so far (bounded)
    junkCount,    \* number of non-delta frames sent so far (bounded)
    \* history kept for the properties
    sinceSnapshot,\* deltas handed to broadcast() since the Snapshot was last written
    frameLost,    \* some frame a session sent was lost before the Room Actor handled it
    applied,      \* every operation webSocketMessage has applied, over all constructions
    dropLog,      \* the frames webSocketMessage dropped: sender, and what was applied by then
    \* access gate rows (ProjectService)
    projects,     \* project rows
    members,      \* project_member rows of ProjectId: user -> role, NoRole when absent
    invites,      \* project_invite rows of ProjectId
    req,          \* each request slot: where its handler stands, and its locals
    now,          \* the clock
    nextToken,    \* tokens / ids nanoid() has handed out so far, plus one
    started,      \* number of requests served so far (bounded)
    joined,       \* history: the memberships joinProject created, and through which invite
    created,      \* history: the invites createInvite inserted, in order of completion
    bumps,        \* history: how often the join handler ran its update of uses, per invite and user
    \* the hook's client setup effect
    hook          \* per session, the runs of the setup effect: cleanup assigned, cleaned up, client live

roomVars == <<phase, doc, clients, sockets, readyState, stored, alarmSet, restarts>>
wireVars == <<s2c, c2s, upgradeStatus>>
sessionVars == <<ydoc, storeAhead, syncToYjsRef, effectPending, wsconnected, txCount, junkCount>>
historyVars == <<sinceSnapshot, frameLost, applied, dropLog>>
gateVars == <<projects, members, invites, req, now, nextToken, started, joined, created, bumps>>
relayVars == <<roomVars, wireVars, sessionVars, historyVars>>
vars == <<roomVars, wireVars, sessionVars, historyVars, gateVars, hook>>

\* ------------------------------------------------------------ Replica
\* Y.encodeStateAsUpdate(d): the full serialization of a Replica
EncodeStateAsUpdate(d) == [kind |-> "full", ops |-> d]

\* Y.applyUpdate(d, update): merge the update's operations
ApplyUpdate(d, update) == d \cup update.ops

\* a decoder that accepts any bytes
WellFormedAny(msg) == msg.kind # "string"

\* bytes that Y.applyUpdate decodes
WellFormed(msg) == msg.kind \in {"full", "delta"}


\* ------------------------------------------------------------ access gate
IsOrganizationMember(userId, organizationId) ==
    [userId |-> userId, organizationId |-> organizationId] \in OrgMemberRows

\* an access check that does not read the project's member rows
CheckAccessNoRows(projectId, userId) ==
    IF ~\E p \in projects : p.id = projectId
    THEN [allowed |-> FALSE, role |-> NoRole]
    ELSE IF ProjectRow.ownerId = userId
    THEN [allowed |-> TRUE, role |-> "owner"]
    ELSE IF IsOrganizationMember(userId, ProjectRow.organizationId)
    THEN [allowed |-> TRUE, role |-> "editor"]
    ELSE [allowed |-> FALSE, role |-> NoRole]

\* ProjectService.checkAccess(projectId, userId)
CheckAccess(projectId, userId) ==
    IF ~\E p \in projects : p.id = projectId
    THEN [allowed |-> FALSE, role |-> NoRole]
    ELSE IF ProjectRow.ownerId = userId
    THEN [allowed |-> TRUE, role |-> "owner"]
    ELSE IF IsOrganizationMember(userId, ProjectRow.organizationId)
    THEN [allowed |-> TRUE, role |-> "editor"]
    ELSE IF members[userId] # NoRole
    THEN [allowed |-> TRUE, role |-> members[userId]]
    ELSE [allowed |-> FALSE, role |-> NoRole]

\* ------------------------------------------------------------ Room Actor
\* the constructor's blockConcurrencyWhile: no event is delivered while it runs
Blocked == phase = "loading"

\* broadcast that does not skip the sender
BroadcastToAll(update, exclude) ==
    [d \in Sessions |->
        IF d \in sockets /\ readyState[d] = "OPEN"
        THEN Append(s2c[d], update)
        ELSE s2c[d]]

\* a broadcast that puts the frame ahead of the frames already queued
BroadcastAhead(update, exclude) ==
    [d \in Sessions |->
        IF d \in sockets /\ d # exclude /\ readyState[d] = "OPEN"
        THEN <<update>> \o s2c[d]
        ELSE s2c[d]]

\* broadcast(update, exclude): the queues after sending update to every open
\* socket but exclude
Broadcast(update, exclude) ==
    [d \in Sessions |->
        IF d \in sockets /\ d # exclude /\ readyState[d] = "OPEN"
        THEN Append(s2c[d], update)
        ELSE s2c[d]]

\* every queue broadcast() would append to has room (bound of the model)
RoomFor(exclude) ==
    \A d \in sockets :
        (d # exclude /\ readyState[d] = "OPEN") => Len(s2c[d]) < MaxQueue

\* a construction that leaves the Replica empty whatever is stored
ColdStartEmpty ==
    /\ phase = "loading"
    /\ doc' = {}
    /\ alarmSet' = TRUE
    /\ phase' = "ready"
    /\ UNCHANGED <<clients, sockets, readyState, stored, restarts>>
    /\ UNCHANGED <<wireVars, sessionVars, historyVars, gateVars, hook>>

\* the callback given to blockConcurrencyWhile: load the Snapshot, arm the alarm
ColdStartLoad ==
    /\ phase = "loading"
    /\ doc' = IF stored.present THEN ApplyUpdate(doc, stored) ELSE doc
    /\ alarmSet' = TRUE
    /\ phase' = "ready"
    /\ UNCHANGED <<clients, sockets, readyState, stored, restarts>>
    /\ UNCHANGED <<wireVars, sessionVars, historyVars, gateVars, hook>>

\* handleWebSocket: accept, register, send the full state
HandleWebSocket(c) ==
    /\ sockets' = sockets \cup {c}
    /\ clients' = clients \cup {c}
    /\ readyState' = [readyState EXCEPT ![c] = "OPEN"]
    /\ s2c' = [s2c EXCEPT ![c] = <<EncodeStateAsUpdate(doc)>>]
    /\ c2s' = [c2s EXCEPT ![c] = <<>>]
    /\ wsconnected' = [wsconnected EXCEPT ![c] = TRUE]
    /\ upgradeStatus' = [upgradeStatus EXCEPT ![c] = 101]
    /\ UNCHANGED <<phase, doc, stored, alarmSet, restarts>>
    /\ UNCHANGED <<ydoc, storeAhead, syncToYjsRef, effectPending, txCount, junkCount>>
    /\ UNCHANGED <<historyVars, gateVars, hook>>

\* an upgrade endpoint that hands every caller over
UpgradeNoGate(c) ==
    /\ ~Blocked
    /\ ~wsconnected[c]
    /\ c \notin sockets
    /\ HandleWebSocket(c)

\* GET /yjs/:id : resolve the caller's access, 403 or hand over to the Room Actor
Upgrade(c) ==
    /\ ~Blocked
    /\ ~wsconnected[c]
    /\ c \notin sockets
    /\ IF ~CheckAccess(ProjectId, UserOf(c)).allowed
       THEN /\ upgradeStatus' = [upgradeStatus EXCEPT ![c] = 403]
            /\ UNCHANGED <<roomVars, s2c, c2s, sessionVars, historyVars, gateVars, hook>>
       ELSE HandleWebSocket(c)

\* webSocketMessage(ws, message)
WebSocketMessage(c) ==
    /\ ~Blocked
    /\ c \in sockets
    /\ c2s[c] # <<>>
    /\ LET message == Head(c2s[c]) IN
       /\ c2s' = [c2s EXCEPT ![c] = Tail(c2s[c])]
       /\ IF message.kind = "string" \/ ~WellFormed(message)
          THEN /\ dropLog' = dropLog \cup {[from |-> c, before |-> applied]}
               /\ UNCHANGED <<doc, s2c, sinceSnapshot, applied>>
          ELSE /\ RoomFor(c)
               /\ doc' = ApplyUpdate(doc, message)
               /\ s2c' = Broadcast(message, c)
               /\ sinceSnapshot' = Append(sinceSnapshot, message)
               /\ applied' = applied \cup message.ops
               /\ dropLog' = dropLog
    /\ UNCHANGED <<phase, clients, sockets, readyState, stored, alarmSet, restarts>>
    /\ UNCHANGED <<upgradeStatus, sessionVars, frameLost, gateVars, hook>>

\* webSocketMessage(ws, message) when, inside broadcast, ws.send throws for the
\* open socket f: the catch deletes f from this.clients and the loop goes on;
\* f stays among ctx.getWebSockets()
WebSocketMessageSendFails(c, f) ==
    /\ ~Blocked
    /\ c \in sockets
    /\ c2s[c] # <<>>
    /\ f \in sockets \ {c}
    /\ readyState[f] = "OPEN"
    /\ LET message == Head(c2s[c]) IN
       /\ message.kind # "string" /\ WellFormed(message)
       /\ RoomFor(c)
       /\ c2s' = [c2s EXCEPT ![c] = Tail(c2s[c])]
       /\ doc' = ApplyUpdate(doc, message)
       /\ s2c' = [Broadcast(message, c) EXCEPT ![f] = s2c[f]]
       /\ clients' = clients \ {f}
       /\ sinceSnapshot' = Append(sinceSnapshot, message)
       /\ applied' = applied \cup message.ops
    /\ UNCHANGED <<phase, sockets, readyState, stored, alarmSet, restarts>>
    /\ UNCHANGED <<upgradeStatus, sessionVars, frameLost, dropLog, gateVars, hook>>

\* an alarm that writes the Snapshot and schedules nothing
AlarmOnce ==
    /\ ~Blocked
    /\ alarmSet
    /\ stored' = Snapshot(EncodeStateAsUpdate(doc))
    /\ alarmSet' = FALSE
    /\ sinceSnapshot' = <<>>
    /\ UNCHANGED <<phase, doc, clients, sockets, readyState, restarts>>
    /\ UNCHANGED <<wireVars, sessionVars, frameLost, applied, dropLog, gateVars, hook>>

\* alarm(): write the Snapshot, schedule the next firing
Alarm ==
    /\ ~Blocked
    /\ alarmSet
    /\ stored' = Snapshot(EncodeStateAsUpdate(doc))
    /\ alarmSet' = TRUE
    /\ sinceSnapshot' = <<>>
    /\ UNCHANGED <<phase, doc, clients, sockets, readyState, restarts>>
    /\ UNCHANGED <<wireVars, sessionVars, frameLost, applied, dropLog, gateVars, hook>>

\* alarm() when storage.put rejects, on this invocation and on the runtime's
\* retries of it: the handler throws before setAlarm, nothing is written and no
\* firing is scheduled
AlarmPutFails ==
    /\ ~Blocked
    /\ alarmSet
    /\ alarmSet' = FALSE
    /\ UNCHANGED <<phase, doc, clients, sockets, readyState, stored, restarts>>
    /\ UNCHANGED <<wireVars, sessionVars, historyVars, gateVars, hook>>

\* deleteProject(projectId): no client ever sets an entry keyed by the project
\* id, so the deletes inside the transaction change nothing; the full state is
\* broadcast to every socket and written at once
DeleteProject ==
    /\ ~Blocked
    /\ RoomFor("nobody")
    /\ doc' = doc
    /\ s2c' = Broadcast(EncodeStateAsUpdate(doc'), "nobody")
    /\ stored' = Snapshot(EncodeStateAsUpdate(doc'))
    /\ sinceSnapshot' = <<>>
    /\ UNCHANGED <<phase, clients, sockets, readyState, alarmSet, restarts>>
    /\ UNCHANGED <<c2s, upgradeStatus, sessionVars, frameLost, applied, dropLog, gateVars, hook>>

\* webSocketClose / webSocketError: forget the socket
WebSocketClose(c) ==
    /\ ~Blocked
    /\ c \in sockets
    /\ readyState[c] = "CLOSED"
    /\ c2s[c] = <<>>
    /\ clients' = clients \ {c}
    /\ sockets' = sockets \ {c}
    /\ UNCHANGED <<phase, doc, readyState, stored, alarmSet, restarts>>
    /\ UNCHANGED <<wireVars, sessionVars, historyVars, gateVars, hook>>

\* The actor leaves memory and is constructed again.  hibernate: the runtime
\* keeps the accepted sockets and the constructor registers them again;
\* otherwise the process died and every socket is gone.  Either way this.doc
\* is a new Y.Doc until the Snapshot is loaded.
Restart(hibernate) ==
    /\ phase = "ready"
    /\ restarts < MaxRestarts
    /\ restarts' = restarts + 1
    /\ phase' = "loading"
    /\ doc' = {}
    /\ IF hibernate
       THEN /\ clients' = sockets
            /\ UNCHANGED <<sockets, readyState, wireVars, wsconnected, frameLost>>
       ELSE /\ clients' = {}
            /\ sockets' = {}
            /\ readyState' = [c \in Sessions |-> "CLOSED"]
            /\ s2c' = [c \in Sessions |-> <<>>]
            /\ c2s' = [c \in Sessions |-> <<>>]
            /\ wsconnected' = [c \in Sessions |-> FALSE]
            /\ frameLost' = (frameLost \/ \E c \in Sessions : c2s[c] # <<>>)
            /\ UNCHANGED upgradeStatus
    /\ UNCHANGED <<stored, alarmSet, sinceSnapshot, applied, dropLog, gateVars, hook>>
    /\ UNCHANGED <<ydoc, storeAhead, syncToYjsRef, effectPending, txCount, junkCount>>


\* ------------------------------------------------------ client sync session
\* clientRef.current is set once the realtime query has returned a websocket URL,
\* which it does only to a caller with access
HasClient(c) == CheckAccess(ProjectId, UserOf(c)).allowed

\* a session that is never read-only
IsReadOnlyNever(c) == FALSE

\* editor.tsx: isReadOnly = accessRole === "viewer"
IsReadOnly(c) == CheckAccess(ProjectId, UserOf(c)).role = "viewer"

\* the IndexedDB copy of the session's Replica: IndexeddbPersistence stores
\* every update of the ydoc it was constructed with, connected or not
LocalCache(c) == ydoc[c]

\* the next operation id the session's Replica will use
NextOp(c) == <<c, Cardinality({o \in ydoc[c] : o[1] = c}) + 1>>

\* the user changes nodes / edges in the Zustand store
UserEdit(c) ==
    /\ txCount < MaxEdits
    /\ txCount' = txCount + 1
    /\ storeAhead' = [storeAhead EXCEPT ![c] = TRUE]
    /\ effectPending' = [effectPending EXCEPT ![c] = TRUE]
    /\ UNCHANGED <<ydoc, syncToYjsRef, wsconnected, junkCount>>
    /\ UNCHANGED <<roomVars, wireVars, historyVars, gateVars, hook>>

\* an onUpdate that does not raise syncToYjsRef
OnUpdateNoFlag(c) ==
    /\ syncToYjsRef' = syncToYjsRef
    /\ storeAhead' = [storeAhead EXCEPT ![c] = FALSE]
    /\ effectPending' = [effectPending EXCEPT ![c] = TRUE]

\* onUpdate, called by the nodes / edges observers of the local Replica
OnUpdate(c) ==
    /\ syncToYjsRef' = [syncToYjsRef EXCEPT ![c] = TRUE]
    /\ storeAhead' = [storeAhead EXCEPT ![c] = FALSE]
    /\ effectPending' = [effectPending EXCEPT ![c] = TRUE]

\* client.setState(nodes, edges): one transaction on the local Replica; the
\* provider sends its update, the observers call onUpdate
SetState(c) ==
    /\ Len(c2s[c]) < MaxQueue
    /\ ydoc' = [ydoc EXCEPT ![c] = ydoc[c] \cup {NextOp(c)}]
    /\ c2s' = [c2s EXCEPT ![c] = Append(c2s[c], [kind |-> "delta", ops |-> {NextOp(c)}])]
    /\ OnUpdate(c)

\* an effect without the syncToYjsRef guard
SyncEffectNoGuard(c) ==
    /\ effectPending[c]
    /\ IF ~HasClient(c) \/ ~wsconnected[c] \/ IsReadOnly(c)
       THEN /\ effectPending' = [effectPending EXCEPT ![c] = FALSE]
            /\ UNCHANGED <<ydoc, c2s, syncToYjsRef, storeAhead>>
       ELSE SetState(c)
    /\ UNCHANGED <<wsconnected, txCount, junkCount>>
    /\ UNCHANGED <<roomVars, s2c, upgradeStatus, historyVars, gateVars, hook>>

\* the "Sync Zustand changes to Yjs" effect
SyncEffect(c) ==
    /\ effectPending[c]
    /\ IF ~HasClient(c) \/ ~wsconnected[c]
       THEN /\ effectPending' = [effectPending EXCEPT ![c] = FALSE]
            /\ UNCHANGED <<ydoc, c2s, syncToYjsRef, storeAhead>>
       ELSE IF IsReadOnly(c)
       THEN /\ effectPending' = [effectPending EXCEPT ![c] = FALSE]
            /\ UNCHANGED <<ydoc, c2s, syncToYjsRef, storeAhead>>
       ELSE IF syncToYjsRef[c]
       THEN /\ syncToYjsRef' = [syncToYjsRef EXCEPT ![c] = FALSE]
            /\ effectPending' = [effectPending EXCEPT ![c] = FALSE]
            /\ UNCHANGED <<ydoc, c2s, storeAhead>>
       ELSE SetState(c)
    /\ UNCHANGED <<wsconnected, txCount, junkCount>>
    /\ UNCHANGED <<roomVars, s2c, upgradeStatus, historyVars, gateVars, hook>>

\* the provider receives a frame and merges it into the local Replica; the
\* observers fire when the merge changed the document
ClientReceive(c) ==
    /\ wsconnected[c]
    /\ s2c[c] # <<>>
    /\ LET update == Head(s2c[c]) IN
       /\ s2c' = [s2c EXCEPT ![c] = Tail(s2c[c])]
       /\ ydoc' = [ydoc EXCEPT ![c] = ApplyUpdate(ydoc[c], update)]
       /\ IF update.ops \subseteq ydoc[c]
          THEN UNCHANGED <<syncToYjsRef, storeAhead, effectPending>>
          ELSE OnUpdate(c)
    /\ UNCHANGED <<wsconnected, txCount, junkCount>>
    /\ UNCHANGED <<roomVars, c2s, upgradeStatus, historyVars, gateVars, hook>>

\* the provider sends a frame that is no document update (its own protocol
\* and awareness messages): text, or bytes Y.applyUpdate cannot decode
ClientSendOther(c, kind) ==
    /\ wsconnected[c]
    /\ junkCount < MaxJunk
    /\ Len(c2s[c]) < MaxQueue
    /\ junkCount' = junkCount + 1
    /\ c2s' = [c2s EXCEPT ![c] = Append(c2s[c], [kind |-> kind, ops |-> {}])]
    /\ UNCHANGED <<ydoc, storeAhead, syncToYjsRef, effectPending, wsconnected, txCount>>
    /\ UNCHANGED <<roomVars, s2c, upgradeStatus, historyVars, gateVars, hook>>

\* the connection ends, by client.disconnect() or by the network.  A close
\* handshake lets the frames already sent reach the Room Actor; a dropped
\* connection loses them.
ClientClose(c, dropped) ==
    /\ wsconnected[c]
    /\ wsconnected' = [wsconnected EXCEPT ![c] = FALSE]
    /\ readyState' = [readyState EXCEPT ![c] = "CLOSED"]
    /\ s2c' = [s2c EXCEPT ![c] = <<>>]
    /\ IF dropped /\ c2s[c] # <<>>
       THEN /\ c2s' = [c2s EXCEPT ![c] = <<>>]
            /\ frameLost' = TRUE
       ELSE UNCHANGED <<c2s, frameLost>>
    /\ UNCHANGED <<phase, doc, clients, sockets, stored, alarmSet, restarts>>
    /\ UNCHANGED <<ydoc, storeAhead, syncToYjsRef, effectPending, txCount, junkCount>>
    /\ UNCHANGED <<upgradeStatus, sinceSnapshot, applied, dropLog, gateVars, hook>>

\* ------------------------------------------------------ client setup effect
\* one run of the "Create Yjs client" effect: setupClient has created and
\* connected a client; cleanup is the run's local variable
NewRun == [assigned |-> FALSE, cleaned |-> FALSE, live |-> TRUE]

\* React runs the effect (mount, changed dependency, or the second mount of
\* StrictMode) after the previous run, if any, was cleaned up
SetupEffect(c) ==
    /\ Len(hook[c]) < MaxMounts
    /\ hook[c] # <<>> => hook[c][Len(hook[c])].cleaned
    /\ hook' = [hook EXCEPT ![c] = Append(hook[c], NewRun)]
    /\ UNCHANGED <<relayVars, gateVars>>

\* the continuation after `await setupClient()`: cleanup = result
SetupCompletes(c, i) ==
    /\ i \in DOMAIN hook[c]
    /\ ~hook[c][i].assigned
    /\ hook' = [hook EXCEPT ![c][i].assigned = TRUE]
    /\ UNCHANGED <<relayVars, gateVars>>

\* React calls the function the effect returned: cleanup?.(), which
\* disconnects the client and disposes the awareness manager when cleanup is
\* assigned and does nothing when it is not
EffectCleanup(c, i) ==
    /\ i \in DOMAIN hook[c]
    /\ ~hook[c][i].cleaned
    /\ hook' = [hook EXCEPT ![c][i].cleaned = TRUE,
                            ![c][i].live = IF hook[c][i].assigned THEN FALSE ELSE @]
    /\ UNCHANGED <<relayVars, gateVars>>

\* ------------------------------------------------------------ invite routes
\* Each handler runs up to its next await in one step; the database executes
\* one statement at a time.

\* a slot that can take a request
Free(r) == req[r].pc \in {"idle", "done"} /\ started < MaxRequests

\* the handler returns c.json(..., status)
Respond(r, status) == [req EXCEPT ![r].pc = "done", ![r].status = status]

\* ProjectService.getInviteByToken(token): invites[0] of the select
GetInviteByToken(token) ==
    IF \E i \in invites : i.token = token
    THEN CHOOSE i \in invites : i.token = token
    ELSE NoInvite

\* POST /projects/:id/invite, up to createInvite's first statement: the owner
\* check, then token and now are taken
InviteCheckAccess(r, u, role) ==
    /\ Free(r)
    /\ started' = started + 1
    /\ LET access == CheckAccess(ProjectId, u) IN
       IF ~access.allowed \/ access.role # "owner"
       THEN /\ req' = [req EXCEPT ![r] = [IdleReq EXCEPT !.pc = "done", !.kind = "invite",
                                            !.user = u, !.role = role, !.status = 403]]
            /\ UNCHANGED nextToken
       ELSE /\ nextToken < MaxRequests + 1
            /\ req' = [req EXCEPT ![r] = [IdleReq EXCEPT !.pc = "deleteOld", !.kind = "invite",
                                            !.user = u, !.role = role,
                                            !.token = nextToken, !.now = now]]
            /\ nextToken' = nextToken + 1
    /\ UNCHANGED <<members, invites, now, joined, created, bumps, projects, relayVars, hook>>

\* createInvite: delete any existing invite for the same project and role
CreateInviteDeleteOld(r) ==
    /\ req[r].pc = "deleteOld"
    /\ invites' = {i \in invites : i.role # req[r].role}
    /\ req' = [req EXCEPT ![r].pc = "insert"]
    /\ UNCHANGED <<members, now, nextToken, started, joined, created, bumps, projects, relayVars, hook>>

\* createInvite: insert the new invite; the handler answers with its URL
CreateInviteInsert(r) ==
    /\ req[r].pc = "insert"
    /\ invites' = invites \cup
           {[id |-> req[r].token, token |-> req[r].token, role |-> req[r].role,
             hasMaxUses |-> FALSE, maxUses |-> 0, uses |-> 0,
             expiresAt |-> req[r].now + InviteLifetime]}
    /\ req' = Respond(r, 200)
    /\ created' = Append(created, [token |-> req[r].token, role |-> req[r].role])
    /\ UNCHANGED <<members, now, nextToken, started, joined, bumps, projects, relayVars, hook>>

\* a revoke handler that lets any user with access through
RevokeCheckAccessAnyRole(r, u, role) ==
    /\ Free(r)
    /\ started' = started + 1
    /\ LET access == CheckAccess(ProjectId, u) IN
       req' = [req EXCEPT ![r] =
                  IF ~access.allowed
                  THEN [IdleReq EXCEPT !.pc = "done", !.kind = "revoke", !.user = u,
                                       !.role = role, !.status = 403]
                  ELSE [IdleReq EXCEPT !.pc = "revoke", !.kind = "revoke", !.user = u,
                                       !.role = role]]
    /\ UNCHANGED <<members, invites, now, nextToken, joined, created, bumps, projects, relayVars, hook>>

\* DELETE /projects/:id/invite/:role, the owner check
RevokeCheckAccess(r, u, role) ==
    /\ Free(r)
    /\ started' = started + 1
    /\ LET access == CheckAccess(ProjectId, u) IN
       req' = [req EXCEPT ![r] =
                  IF ~access.allowed \/ access.role # "owner"
                  THEN [IdleReq EXCEPT !.pc = "done", !.kind = "revoke", !.user = u,
                                       !.role = role, !.status = 403]
                  ELSE [IdleReq EXCEPT !.pc = "revoke", !.kind = "revoke", !.user = u,
                                       !.role = role]]
    /\ UNCHANGED <<members, invites, now, nextToken, joined, created, bumps, projects, relayVars, hook>>

\* ProjectService.revokeInvite(projectId, role)
RevokeInvite(r) ==
    /\ req[r].pc = "revoke"
    /\ invites' = {i \in invites : i.role # req[r].role}
    /\ req' = Respond(r, 200)
    /\ UNCHANGED <<members, now, nextToken, started, joined, created, bumps, projects, relayVars, hook>>

\* a join handler that does not look at expiresAt
JoinGetInviteNoExpiry(r, u, token) ==
    /\ Free(r)
    /\ started' = started + 1
    /\ LET invite == GetInviteByToken(token)
           start == [IdleReq EXCEPT !.kind = "join", !.user = u, !.token = token,
                                    !.invite = invite, !.now = now]
       IN req' = [req EXCEPT ![r] =
                     IF invite = NoInvite
                     THEN [start EXCEPT !.pc = "done", !.status = 404]
                     ELSE IF invite.hasMaxUses /\ invite.uses >= invite.maxUses
                     THEN [start EXCEPT !.pc = "done", !.status = 409]
                     ELSE [start EXCEPT !.pc = "checkAccess"]]
    /\ UNCHANGED <<members, invites, now, nextToken, joined, created, bumps, projects, relayVars, hook>>

\* POST /projects/join/:token, the lookup and the checks on the row it read
JoinGetInvite(r, u, token) ==
    /\ Free(r)
    /\ started' = started + 1
    /\ LET invite == GetInviteByToken(token)
           start == [IdleReq EXCEPT !.kind = "join", !.user = u, !.token = token,
                                    !.invite = invite, !.now = now]
       IN req' = [req EXCEPT ![r] =
                     IF invite = NoInvite
                     THEN [start EXCEPT !.pc = "done", !.status = 404]
                     ELSE IF invite.expiresAt < now
                     THEN [start EXCEPT !.pc = "done", !.status = 410]
                     ELSE IF invite.hasMaxUses /\ invite.uses >= invite.maxUses
                     THEN [start EXCEPT !.pc = "done", !.status = 409]
                     ELSE [start EXCEPT !.pc = "checkAccess"]]
    /\ UNCHANGED <<members, invites, now, nextToken, joined, created, bumps, projects, relayVars, hook>>

\* the join handler's checkAccess: a caller with access joins nothing
JoinCheckAccess(r) ==
    /\ req[r].pc = "checkAccess"
    /\ req' = IF CheckAccess(ProjectId, req[r].user).allowed
              THEN Respond(r, 200)
              ELSE [req EXCEPT ![r].pc = "joinProject"]
    /\ UNCHANGED <<members, invites, now, nextToken, started, joined, created, bumps, projects, relayVars, hook>>

\* ProjectService.joinProject(projectId, userId, role): insert, on conflict do nothing
JoinProject(r) ==
    /\ req[r].pc = "joinProject"
    /\ LET u == req[r].user IN
       IF members[u] = NoRole
       THEN /\ members' = [members EXCEPT ![u] = req[r].invite.role]
            /\ joined' = joined \cup
                   {[id |-> req[r].invite.id, user |-> u,
                     single |-> req[r].invite.hasMaxUses /\ req[r].invite.maxUses = 1]}
       ELSE UNCHANGED <<members, joined>>
    /\ req' = [req EXCEPT ![r].pc = "updateUses"]
    /\ UNCHANGED <<invites, now, nextToken, started, created, bumps, projects, relayVars, hook>>

\* an update that adds one to the uses the row holds when it runs
JoinUpdateUsesInPlace(r) ==
    /\ req[r].pc = "updateUses"
    /\ invites' = {IF i.id = req[r].invite.id
                   THEN [i EXCEPT !.uses = i.uses + 1]
                   ELSE i : i \in invites}
    /\ req' = Respond(r, 200)
    /\ bumps' = [bumps EXCEPT ![<<req[r].invite.id, req[r].user>>] = @ + 1]
    /\ UNCHANGED <<members, now, nextToken, started, joined, created, projects, relayVars, hook>>

\* the join handler's update: uses = (the uses it read) + 1 where id = invite.id
JoinUpdateUses(r) ==
    /\ req[r].pc = "updateUses"
    /\ invites' = {IF i.id = req[r].invite.id
                   THEN [i EXCEPT !.uses = req[r].invite.uses + 1]
                   ELSE i : i \in invites}
    /\ req' = Respond(r, 200)
    /\ bumps' = [bumps EXCEPT ![<<req[r].invite.id, req[r].user>>] = @ + 1]
    /\ UNCHANGED <<members, now, nextToken, started, joined, created, projects, relayVars, hook>>

\* DELETE /projects/:id, up to the delete statement: refused unless the caller
\* has access with a role other than viewer
DeleteCheckAccess(r, u) ==
    /\ Free(r)
    /\ started' = started + 1
    /\ LET access == CheckAccess(ProjectId, u) IN
       req' = [req EXCEPT ![r] =
                  IF ~access.allowed \/ access.role = "viewer"
                  THEN [IdleReq EXCEPT !.pc = "done", !.kind = "delete", !.user = u,
                                       !.status = 403]
                  ELSE [IdleReq EXCEPT !.pc = "deleteProject", !.kind = "delete",
                                       !.user = u]]
    /\ UNCHANGED <<projects, members, invites, now, nextToken, joined, created, bumps, relayVars, hook>>

\* ProjectService.deleteProject(projectId): delete the project row; its member
\* and invite rows go with it (on delete cascade).  The Room Actor is not told.
DeleteProjectRow(r) ==
    /\ req[r].pc = "deleteProject"
    /\ projects' = {p \in projects : p.id # ProjectId}
    /\ members' = [u \in Users |-> NoRole]
    /\ invites' = {}
    /\ req' = Respond(r, 200)
    /\ UNCHANGED <<now, nextToken, started, joined, created, bumps, relayVars, hook>>

\* GET /project/:id/state: the handler reads the caller and the project id,
\* asks the Room Actor for its state and returns it; there is no access check
GetProjectState(r, u) ==
    /\ Free(r)
    /\ ~Blocked
    /\ started' = started + 1
    /\ req' = [req EXCEPT ![r] =
                  [IdleReq EXCEPT !.pc = "done", !.kind = "state", !.user = u,
                                  !.status = 200,
                                  !.body = Snapshot(EncodeStateAsUpdate(doc))]]
    /\ UNCHANGED <<projects, members, invites, now, nextToken, joined, created, bumps, relayVars, hook>>

\* time passes
Tick ==
    /\ now < MaxClock
    /\ now' = now + 1
    /\ UNCHANGED <<members, invites, req, nextToken, started, joined, created, bumps, projects, relayVars, hook>>

\* ------------------------------------------------------------ specification
InitMembers == [u \in Users |-> IF u = "u3" THEN "viewer" ELSE NoRole]

InitRelay ==
    /\ phase = "loading"
    /\ doc = {}
    /\ clients = {}
    /\ sockets = {}
    /\ readyState = [c \in Sessions |-> "CLOSED"]
    /\ stored = NoSnapshot
    /\ alarmSet = FALSE
    /\ restarts = 0
    /\ s2c = [c \in Sessions |-> <<>>]
    /\ c2s = [c \in Sessions |-> <<>>]
    /\ upgradeStatus = [c \in Sessions |-> 0]
    /\ ydoc = [c \in Sessions |-> {}]
    /\ storeAhead = [c \in Sessions |-> FALSE]
    /\ syncToYjsRef = [c \in Sessions |-> FALSE]
    /\ effectPending = [c \in Sessions |-> FALSE]
    /\ wsconnected = [c \in Sessions |-> FALSE]
    /\ txCount = 0
    /\ junkCount = 0
    /\ sinceSnapshot = <<>>
    /\ frameLost = FALSE
    /\ applied = {}
    /\ dropLog = {}
    /\ hook = [c \in Sessions |-> <<>>]

Init ==
    /\ InitRelay
    /\ projects = {ProjectRow}
    /\ members = InitMembers
    /\ invites = {}
    /\ req = [r \in Reqs |-> IdleReq]
    /\ now = 0
    /\ nextToken = 1
    /\ started = 0
    /\ joined = {}
    /\ created = <<>>
    /\ bumps = [p \in (1..MaxRequests) \X Users |-> 0]

Next ==
    \/ ColdStartLoad
    \/ \E c \in RelaySessions : Upgrade(c)
    \/ \E c \in RelaySessions : WebSocketMessage(c)
    \/ Alarm
    \/ DeleteProject
    \/ \E c \in RelaySessions : WebSocketClose(c)
    \/ \E h \in BOOLEAN : Restart(h)
    \/ \E c \in RelaySessions \cap Editing : UserEdit(c)
    \/ \E c \in RelaySessions : SyncEffect(c)
    \/ \E c \in RelaySessions : ClientReceive(c)
    \/ \E c \in RelaySessions, dropped \in BOOLEAN : ClientClose(c, dropped)

Spec == Init /\ [][Next]_vars


\* the relay in normal operation, with frames that are no document update
NextFrames ==
    \/ ColdStartLoad
    \/ \E c \in Sessions : Upgrade(c)
    \/ \E c \in Sessions : WebSocketMessage(c)
    \/ \E c \in Sessions : WebSocketClose(c)
    \/ \E c \in Editing : UserEdit(c)
    \/ \E c \in Sessions : SyncEffect(c)
    \/ \E c \in Sessions : ClientReceive(c)
    \/ \E c \in Sessions, kind \in {"string", "malformed"} : ClientSendOther(c, kind)
    \/ \E c \in Sessions : ClientClose(c, FALSE)

SpecFrames == Init /\ [][NextFrames]_vars

\* the relay without restarts, the runtime firing a scheduled alarm and
\* finishing a construction it began
NextLive ==
    \/ ColdStartLoad
    \/ \E c \in LiveSessions : Upgrade(c)
    \/ \E c \in LiveSessions : WebSocketMessage(c)
    \/ Alarm
    \/ DeleteProject
    \/ \E c \in LiveSessions : WebSocketClose(c)
    \/ \E c \in LiveSessions \cap Editing : UserEdit(c)
    \/ \E c \in LiveSessions : SyncEffect(c)
    \/ \E c \in LiveSessions : ClientReceive(c)
    \/ \E c \in LiveSessions, dropped \in BOOLEAN : ClientClose(c, dropped)

SpecLive == Init /\ [][NextLive]_vars /\ WF_vars(ColdStartLoad) /\ WF_vars(Alarm)

\* the relay with two sessions that edit (owner and organization member) and
\* one that only reads; no Snapshot is written, so sinceSnapshot holds every
\* delta in the order webSocketMessage applied it
NextOrder ==
    \/ ColdStartLoad
    \/ \E c \in SendSessions : Upgrade(c)
    \/ \E c \in SendSessions : WebSocketMessage(c)
    \/ \E c \in SendSessions : WebSocketClose(c)
    \/ \E c \in Writers : UserEdit(c)
    \/ \E c \in SendSessions : SyncEffect(c)
    \/ \E c \in SendSessions : ClientReceive(c)
    \/ \E c \in SendSessions : ClientClose(c, FALSE)

SpecOrder == Init /\ [][NextOrder]_vars

\* the relay with connections that stay up: every handler and every session's
\* effect and provider get to run
NextSettle ==
    \/ ColdStartLoad
    \/ \E c \in SendSessions : Upgrade(c)
    \/ \E c \in SendSessions : WebSocketMessage(c)
    \/ \E c \in Writers : UserEdit(c)
    \/ \E c \in SendSessions : SyncEffect(c)
    \/ \E c \in SendSessions : ClientReceive(c)

SpecSettle ==
    /\ Init /\ [][NextSettle]_vars
    /\ WF_vars(ColdStartLoad)
    /\ \A c \in SendSessions :
           /\ WF_vars(WebSocketMessage(c))
           /\ WF_vars(SyncEffect(c))
           /\ WF_vars(ClientReceive(c))

\* the relay with the endpoint that returns the document's state
NextState ==
    \/ ColdStartLoad
    \/ \E c \in LiveSessions : Upgrade(c)
    \/ \E c \in LiveSessions : WebSocketMessage(c)
    \/ \E c \in LiveSessions : WebSocketClose(c)
    \/ \E c \in LiveSessions \cap Editing : UserEdit(c)
    \/ \E c \in LiveSessions : SyncEffect(c)
    \/ \E c \in LiveSessions : ClientReceive(c)
    \/ \E c \in LiveSessions : ClientClose(c, FALSE)
    \/ \E r \in Reqs, u \in {"u1", "u4"} : GetProjectState(r, u)

SpecState == Init /\ [][NextState]_vars

\* the setup effect of the hook in two mounted sessions
NextHook ==
    \/ \E c \in LiveSessions : SetupEffect(c)
    \/ \E c \in LiveSessions, i \in 1..MaxMounts : SetupCompletes(c, i)
    \/ \E c \in LiveSessions, i \in 1..MaxMounts : EffectCleanup(c, i)

SpecHook == Init /\ [][NextHook]_vars

\* the relay with a Snapshot write that can fail
NextPutFails ==
    \/ ColdStartLoad
    \/ \E c \in LiveSessions : Upgrade(c)
    \/ \E c \in LiveSessions : WebSocketMessage(c)
    \/ Alarm
    \/ AlarmPutFails
    \/ \E c \in LiveSessions : WebSocketClose(c)
    \/ \E c \in LiveSessions \cap Editing : UserEdit(c)
    \/ \E c \in LiveSessions : SyncEffect(c)
    \/ \E c \in LiveSessions : ClientReceive(c)
    \/ \E c \in LiveSessions, dropped \in BOOLEAN : ClientClose(c, dropped)

SpecPutFails == Init /\ [][NextPutFails]_vars

\* the relay with a send that can fail inside broadcast
NextSendFails ==
    \/ ColdStartLoad
    \/ \E c \in SendSessions : Upgrade(c)
    \/ \E c \in SendSessions : WebSocketMessage(c)
    \/ \E c \in SendSessions, f \in SendSessions : WebSocketMessageSendFails(c, f)
    \/ \E c \in SendSessions : WebSocketClose(c)
    \/ \E c \in SendSessions \cap Editing : UserEdit(c)
    \/ \E c \in SendSessions : SyncEffect(c)
    \/ \E c \in SendSessions : ClientReceive(c)
    \/ \E c \in SendSessions : ClientClose(c, FALSE)

SpecSendFails == Init /\ [][NextSendFails]_vars

\* the relay with the route that deletes the project
NextDelete ==
    \/ ColdStartLoad
    \/ \E c \in LiveSessions : Upgrade(c)
    \/ \E c \in LiveSessions : WebSocketMessage(c)
    \/ Alarm
    \/ DeleteProject
    \/ \E c \in LiveSessions : WebSocketClose(c)
    \/ \E c \in LiveSessions \cap Editing : UserEdit(c)
    \/ \E c \in LiveSessions : SyncEffect(c)
    \/ \E c \in LiveSessions : ClientReceive(c)
    \/ \E c \in LiveSessions, dropped \in BOOLEAN : ClientClose(c, dropped)
    \/ \E r \in Reqs, u \in {"u1", "u3"} : DeleteCheckAccess(r, u)
    \/ \E r \in Reqs : DeleteProjectRow(r)

SpecDelete == Init /\ [][NextDelete]_vars

\* the invite routes: no member rows yet, the invite table empty or holding one
\* row for the editor role, with or without a limit of one use
InitInvite ==
    /\ InitRelay
    /\ projects = {ProjectRow}
    /\ members = [u \in Users |-> NoRole]
    /\ \/ invites = {} /\ nextToken = 1
       \/ \E limited \in BOOLEAN : invites = {SeedInvite(limited)} /\ nextToken = 2
    /\ req = [r \in Reqs |-> IdleReq]
    /\ now = 0
    /\ started = 0
    /\ joined = {}
    /\ created = <<>>
    /\ bumps = [p \in (1..MaxRequests) \X Users |-> 0]

NextInvite ==
    \/ \E r \in Reqs, u \in {"u1", "u2"}, role \in {"editor", "viewer"} : InviteCheckAccess(r, u, role)
    \/ \E r \in Reqs : CreateInviteDeleteOld(r)
    \/ \E r \in Reqs : CreateInviteInsert(r)
    \/ \E r \in Reqs, u \in {"u1", "u2"}, role \in {"editor", "viewer"} : RevokeCheckAccess(r, u, role)
    \/ \E r \in Reqs : RevokeInvite(r)
    \/ \E r \in Reqs, u \in {"u2", "u3", "u4"}, token \in 0..MaxRequests : JoinGetInvite(r, u, token)
    \/ \E r \in Reqs : JoinCheckAccess(r)
    \/ \E r \in Reqs : JoinProject(r)
    \/ \E r \in Reqs : JoinUpdateUses(r)
    \/ Tick

SpecInvite == InitInvite /\ [][NextInvite]_vars

\* ------------------------------------------------------------ properties
\* a connection the Room Actor counts as attached and can send to
Attached(c) == c \in sockets /\ readyState[c] = "OPEN"

\* nothing is in flight and no session has a sync effect left to run
Quiescent ==
    /\ phase = "ready"
    /\ \A c \in Sessions : s2c[c] = <<>> /\ c2s[c] = <<>> /\ ~effectPending[c]

\* the Room Actor handles the oldest frame session c sent
Handled(c) ==
    /\ c2s[c] # <<>>
    /\ c2s'[c] = Tail(c2s[c])
    /\ wsconnected' = wsconnected
    /\ phase' = phase

\* every operation id an editing session can create
OpIds == Editing \X (1..MaxEdits)

\* C1: once nothing is in flight, no edit is pending and no sent frame was
\* lost, every attached session's Replica equals the Room Actor's Replica.
C1_Convergence ==
    (Quiescent /\ ~frameLost) =>
        \A c \in Sessions : (Attached(c) /\ wsconnected[c]) => ydoc[c] = doc

\* the step that attaches a connection leaves exactly one frame on it, the
\* full serialization of the Replica in memory, and nothing is ever sent on a
\* connection that is not attached; so every delta frame on a connection
\* follows its full-state frame
AttachSendsReplica ==
    [][\A c \in Sessions :
        /\ (c \notin sockets /\ c \in sockets') =>
               s2c'[c] = <<[kind |-> "full", ops |-> doc]>>
        /\ (c \notin sockets /\ c \notin sockets') => s2c'[c] = <<>>
        /\ (c \notin sockets) => s2c[c] = <<>>]_vars

\* C2: the first frame on a newly attached connection is the full
\* serialization of the Replica and holds every operation the Room Actor
\* applied before the attach; no frame is sent on a connection before it.
C2_FullStateFirst ==
    [][\A c \in Sessions :
        /\ (c \notin sockets /\ c \in sockets') =>
               /\ s2c'[c] = <<[kind |-> "full", ops |-> doc]>>
               /\ applied \subseteq s2c'[c][1].ops
        /\ (c \notin sockets /\ c \notin sockets') => s2c'[c] = <<>>
        /\ (c \notin sockets) => s2c[c] = <<>>]_vars

\* a session attached after a delta was applied has the full state
\* holding that delta first and a later delta behind it.
AttachAfterDelta ==
    \E c \in Sessions :
        /\ Attached(c)
        /\ Len(s2c[c]) = 2
        /\ s2c[c][1].kind = "full" /\ s2c[c][1].ops # {}
        /\ s2c[c][2].kind = "delta"

\* C3: handling a well-formed delta from connection c merges it into the
\* Replica and appends the same frame to every other attached connection's
\* queue, and to c's own queue nothing.
C3_RelayToOthers ==
    [][\A c \in Sessions :
        (Handled(c) /\ Head(c2s[c]).kind = "delta") =>
            /\ doc' = doc \cup Head(c2s[c]).ops
            /\ s2c'[c] = s2c[c]
            /\ \A d \in Sessions \ {c} :
                   Attached(d) => s2c'[d] = Append(s2c[d], Head(c2s[c]))]_vars

\* C3 witness: a delta of c1 is queued for two other attached sessions and
\* not for c1, whose Replica the Room Actor has caught up with.
C3_Witness ==
    \E f \in {[kind |-> "delta", ops |-> {o}] : o \in OpIds} :
        /\ Attached("c1") /\ Attached("c2") /\ Attached("c3")
        /\ f.ops \subseteq doc
        /\ \E i \in DOMAIN s2c["c2"] : s2c["c2"][i] = f
        /\ \E i \in DOMAIN s2c["c3"] : s2c["c3"][i] = f
        /\ \A i \in DOMAIN s2c["c1"] : s2c["c1"][i] # f

\* the role the rows give user u on the project
RowRole(u) ==
    IF ProjectRow.ownerId = u THEN "owner"
    ELSE IF \E m \in OrgMemberRows :
                m.userId = u /\ m.organizationId = ProjectRow.organizationId
    THEN "editor"
    ELSE members[u]

\* C4: every attached connection belongs to a user whose role is owner, editor
\* or viewer; a user with no role is answered 403 and is never attached.
C4_OnlyRolesAttach ==
    \A c \in Sessions :
        /\ c \in sockets => RowRole(UserOf(c)) \in {"owner", "editor", "viewer"}
        /\ RowRole(UserOf(c)) = NoRole =>
               c \notin sockets /\ c \notin clients /\ upgradeStatus[c] \in {0, 403}

\* C4 witness: the user without a role was answered 403 while others are attached.
C4_Witness ==
    /\ upgradeStatus["c4"] = 403
    /\ Attached("c1") /\ Attached("c3")

\* C5: a session whose role is viewer merges every frame it receives into its
\* Replica, never sends a frame, and no operation of its making is in any
\* Replica.
C5_ViewerSilent ==
    [][\A c \in Sessions :
        RowRole(UserOf(c)) = "viewer" =>
            /\ c2s'[c] = <<>>
            /\ \A d \in Sessions : \A o \in ydoc'[d] \cup doc' : o[1] # c
            /\ (wsconnected'[c] /\ s2c[c] # <<>> /\ s2c'[c] = Tail(s2c[c]))
                   => ydoc'[c] = ydoc[c] \cup Head(s2c[c]).ops]_vars

\* C5 witness: the connected viewer has merged a peer's delta, then edited its
\* store, and its sync effect has run without sending anything.
C5_Witness ==
    /\ wsconnected["c3"] /\ Attached("c3")
    /\ ydoc["c3"] # {}
    /\ storeAhead["c3"] /\ ~effectPending["c3"]
    /\ c2s["c3"] = <<>>

\* replaying updates, in order, onto a Replica
RECURSIVE Replay(_, _)
Replay(d, updates) ==
    IF updates = <<>> THEN d
    ELSE Replay(ApplyUpdate(d, Head(updates)), Tail(updates))

\* C6: the persisted Snapshot applied to a fresh Replica, followed by every
\* delta broadcast since it was written, gives the live Replica.
C6_Recovery ==
    phase = "ready" =>
        Replay(IF stored.present THEN ApplyUpdate({}, stored) ELSE {}, sinceSnapshot) = doc

\* C7: while the Snapshot is being loaded the Replica is fresh, no connection
\* is accepted and no message is handled, and the load is never refused; the
\* step that completes it leaves the Replica equal to the Snapshot, or
\* empty when there is none.
C7_ColdStart ==
    [][phase = "loading" =>
        /\ doc = {}
        /\ sockets' \subseteq sockets
        /\ \A c \in Sessions : ~Handled(c)
        /\ ENABLED ColdStartLoad
        /\ phase' = "ready" => doc' = (IF stored.present THEN stored.ops ELSE {})]_vars

\* C7 witness: after a restart the Replica was rebuilt from a Snapshot that
\* holds a delta.
C7_Witness ==
    /\ restarts = 1 /\ phase = "ready"
    /\ stored.present /\ stored.ops # {}
    /\ doc = stored.ops

C10_OnePerRole ==
    \A i \in invites : \A j \in invites : i.role = j.role => i = j

\* a join request starts in slot r
JoinStarts(r) ==
    /\ started' = started + 1
    /\ req'[r] # req[r]
    /\ req'[r].kind = "join"

\* token t was returned by a createInvite after which another createInvite for
\* the same role has completed
Superseded(t) ==
    \E i \in DOMAIN created : \E j \in DOMAIN created :
        i < j /\ created[i].token = t /\ created[j].role = created[i].role

\* C11: a join request that starts with a token returned by a createInvite,
\* after a later createInvite for the same role has completed, is answered 404
\* at once, before it can create a membership.
C11_OldTokenNotFound ==
    [][\A r \in Reqs :
        (JoinStarts(r) /\ Superseded(req'[r].token)) =>
            req'[r].pc = "done" /\ req'[r].status = 404]_vars

\* C12: a join request is answered 404 when no invite has its token; else 410
\* when the clock is past the invite's expiresAt, whatever its uses; else 409
\* when the invite has a limit its uses have reached; else it goes on.  A
\* request answered so changes neither the member rows nor the invites.
C12_JoinErrors ==
    [][\A r \in Reqs :
        JoinStarts(r) =>
            LET t == req'[r].token
                rows == {i \in invites : i.token = t}
            IN /\ rows = {} => req'[r].pc = "done" /\ req'[r].status = 404
               /\ \A i \in rows :
                    /\ now > i.expiresAt =>
                           req'[r].pc = "done" /\ req'[r].status = 410
                    /\ (now <= i.expiresAt /\ i.hasMaxUses /\ i.uses >= i.maxUses) =>
                           req'[r].pc = "done" /\ req'[r].status = 409
                    /\ (now <= i.expiresAt /\ ~(i.hasMaxUses /\ i.uses >= i.maxUses)) =>
                           req'[r].pc = "checkAccess"
               /\ req'[r].pc = "done" => members' = members /\ invites' = invites]_vars

\* C12 witness: a join was answered 410 on an invite whose limit was not reached.
C12_Witness ==
    \E r \in Reqs :
        /\ req[r].kind = "join" /\ req[r].status = 410
        /\ req[r].invite.hasMaxUses /\ req[r].invite.uses < req[r].invite.maxUses

C14_UsesWithinLimit ==
    \A i \in invites : i.hasMaxUses => i.uses <= i.maxUses

\* C14 witness: an invite limited to one use stands at its limit after two
\* users joined through it.
C14_Witness ==
    \E i \in invites :
        /\ i.hasMaxUses /\ i.uses = i.maxUses
        /\ \E a \in joined : \E b \in joined :
               a.id = i.id /\ b.id = i.id /\ a.user # b.user

\* C15: for every project id and user, the access check answers owner for the
\* project's owner; otherwise editor for a member of the owning organization
\* or a user with an editor row; otherwise viewer for a user with a viewer
\* row; otherwise no role (and for a project that does not exist, no role);
\* the answer is always one of owner, editor, viewer, none, and access is
\* allowed exactly when the role is not none.
C15_Resolve ==
    \A p \in {ProjectId, "p0"} : \A u \in Users :
        LET access == CheckAccess(p, u)
            exists == \E row \in projects : row.id = p
            inOrg  == [userId |-> u, organizationId |-> ProjectRow.organizationId]
                          \in OrgMemberRows
        IN /\ access.role \in {"owner", "editor", "viewer", NoRole}
           /\ access.allowed <=> access.role # NoRole
           /\ access.role =
                  IF exists /\ ProjectRow.ownerId = u THEN "owner"
                  ELSE IF exists /\ (inOrg \/ members[u] = "editor") THEN "editor"
                  ELSE IF exists /\ members[u] = "viewer" THEN "viewer"
                  ELSE NoRole

\* C15 witness: all four answers occur at once: u1 owns the project, u2 is in
\* the organization, u4 joined as editor, u3 joined as viewer, and a join
\* request that ran the access check has been answered.
C15_Witness ==
    /\ members["u3"] = "viewer"
    /\ members["u4"] = "editor"
    /\ \E r \in Reqs : req[r].kind = "join" /\ req[r].pc = "done" /\ req[r].status = 200

\* C16: a create or revoke request by a user who is not the owner is answered
\* 403 at once and the step leaves the invites unchanged; every step of a
\* create or revoke request that changes the invites belongs to a request of
\* the owner; and the owner's revoke is answered 200 whether or not an invite
\* of that role existed, leaving no invite of that role.
C16_OwnerOnly ==
    [][\A r \in Reqs :
          (req'[r] # req[r] /\ req'[r].kind \in {"invite", "revoke"}) =>
              /\ (started' = started + 1 /\ RowRole(req'[r].user) # "owner") =>
                     /\ req'[r].pc = "done" /\ req'[r].status = 403
                     /\ invites' = invites
              /\ (started' = started + 1 /\ RowRole(req'[r].user) = "owner") =>
                     req'[r].pc # "done"
              /\ req'[r].status = 403 => invites' = invites
              /\ invites' # invites => RowRole(req'[r].user) = "owner"
              /\ (req[r].pc = "revoke" /\ req'[r].pc = "done") =>
                     /\ RowRole(req[r].user) = "owner"
                     /\ req'[r].status = 200
                     /\ \A i \in invites' : i.role # req[r].role]_vars

\* C16 witness: the owner's revoke was answered 200 although no invite ever
\* existed, and another user's request was answered 403.
C16_Witness ==
    /\ invites = {} /\ nextToken = 1 /\ created = <<>>
    /\ \E r \in Reqs : req[r].kind = "revoke" /\ req[r].user = "u1"
                          /\ req[r].pc = "done" /\ req[r].status = 200
    /\ \E r \in Reqs : req[r].kind \in {"invite", "revoke"} /\ req[r].user = "u2"
                          /\ req[r].status = 403

\* C17: in every connection state, once the sync effect has run for a local
\* edit of a session that may write, the local cache holds that edit: the
\* store holds nothing the cached Replica lacks.
C17_CacheHoldsEdits ==
    \A c \in Sessions :
        (HasClient(c) /\ ~IsReadOnly(c) /\ ~effectPending[c]) =>
            (~storeAhead[c] /\ LocalCache(c) = ydoc[c])

\* the sync effect of session c runs in this step
EffectRuns(c) ==
    /\ effectPending[c]
    /\ s2c'[c] = s2c[c] /\ wsconnected'[c] = wsconnected[c] /\ txCount' = txCount
    /\ \/ effectPending'[c] # effectPending[c]
       \/ syncToYjsRef'[c] # syncToYjsRef[c]
       \/ ydoc'[c] # ydoc[c]

\* C18: when the sync effect runs for a connected session that may write and
\* whose store holds a user edit the Replica lacks, the session sends a delta
\* with that edit.
C18_EditsSent ==
    [][\A c \in Sessions :
          (EffectRuns(c) /\ wsconnected[c] /\ HasClient(c) /\ ~IsReadOnly(c)
             /\ storeAhead[c]) =>
              /\ ydoc'[c] # ydoc[c]
              /\ c2s'[c] = Append(c2s[c], [kind |-> "delta", ops |-> ydoc'[c] \ ydoc[c]])
              /\ ~storeAhead'[c]]_vars

\* deleteProject runs in this step: a frame is sent to a connection that was
\* already attached, outside the handling of a message
DeleteRuns ==
    /\ c2s' = c2s /\ sockets' = sockets
    /\ \E d \in Sessions : Attached(d) /\ Len(s2c'[d]) = Len(s2c[d]) + 1

\* C20: the step that handles the delete signal leaves the Replica without
\* content, appends that empty state to the queue of every attached
\* connection, and writes the empty state as the Snapshot in the same step.
C20_DeleteClears ==
    [][DeleteRuns =>
          /\ doc' = {}
          /\ \A d \in Sessions :
                 Attached(d) => s2c'[d] = Append(s2c[d], EncodeStateAsUpdate({}))
          /\ stored' = Snapshot(EncodeStateAsUpdate({}))]_vars

\* C21: once the project row is deleted, no connection is attached to the
\* Room Actor and no Snapshot of the document is stored.
C21_DeletedDestroyed ==
    projects = {} => (sockets = {} /\ clients = {} /\ stored = NoSnapshot)

\* C22: the step in which the Room Actor is constructed again leaves it with
\* no attached connection: no socket it would send to and no registered client.
C22_NoneOutlives ==
    [][restarts' = restarts + 1 => (sockets' = {} /\ clients' = {})]_vars

\* C23: handling a malformed frame of connection c changes neither the
\* Replica nor any connection's queue and leaves c and every other connection
\* attached; and once a frame has been dropped, a well-formed delta of any
\* connection is still merged into the Replica and appended to the queue of
\* every other attached connection.
C23_MalformedDropped ==
    [][\A c \in Sessions :
          /\ (Handled(c) /\ Head(c2s[c]).kind = "malformed") =>
                 /\ doc' = doc /\ s2c' = s2c
                 /\ sockets' = sockets /\ clients' = clients
                 /\ readyState' = readyState
          /\ (Handled(c) /\ Head(c2s[c]).kind = "delta" /\ dropLog # {}) =>
                 /\ doc' = doc \cup Head(c2s[c]).ops
                 /\ \A d \in Sessions \ {c} :
                        Attached(d) => s2c'[d] = Append(s2c[d], Head(c2s[c]))]_vars

\* C23 witness: a frame of a connection was dropped, the connection is still
\* attached, and an operation it sent afterwards has been applied and has
\* reached another attached session.
C23_Witness ==
    \E l \in dropLog : \E o \in applied \ l.before :
        /\ o[1] = l.from
        /\ Attached(l.from)
        /\ o \in doc
        /\ \E d \in Sessions \ {l.from} : Attached(d) /\ o \in ydoc[d]

\* a send to some connection fails in this step
SendFailed(f) == f \in clients /\ f \notin clients' /\ f \in sockets'

\* C24: in the step in which the send to f fails, the delta is merged into the
\* Replica and appended to the queue of every other attached connection but
\* the sender; and a connection detached that way gets no frame appended to
\* its queue in any later step.
C24_FailedSendDetaches ==
    [][\A f \in Sessions :
          /\ SendFailed(f) =>
                 \E c \in Sessions \ {f} :
                     /\ Handled(c)
                     /\ doc' = doc \cup Head(c2s[c]).ops
                     /\ \A d \in Sessions \ {c, f} :
                            Attached(d) => s2c'[d] = Append(s2c[d], Head(c2s[c]))
          /\ (f \in sockets /\ f \notin clients /\ f \notin clients') =>
                 Len(s2c'[f]) <= Len(s2c[f])]_vars

\* C25: no step, a failed Snapshot write included, changes the Replica
\* without a message being handled or leaves the persistence timer without a
\* scheduled firing once it had one.
C25_WriteFailureContained ==
    [][/\ alarmSet => alarmSet'
       /\ (c2s' = c2s /\ phase' = phase) => doc' = doc]_vars

\* the place of delta f in the order in which deltas were applied
ApplyIndex(f) == CHOOSE i \in DOMAIN sinceSnapshot : sinceSnapshot[i] = f

\* C26: the frames queued for a connection are in the order in which the Room
\* Actor applied them: a full state comes only first and holds none of the
\* deltas queued behind it, and of two queued deltas the one queued first was
\* applied first.
C26_ApplyOrder ==
    \A d \in Sessions : \A i \in DOMAIN s2c[d] : \A j \in DOMAIN s2c[d] :
        i < j =>
            /\ s2c[d][j].kind = "delta"
            /\ \E k \in DOMAIN sinceSnapshot : sinceSnapshot[k] = s2c[d][j]
            /\ s2c[d][i].kind = "full" => s2c[d][i].ops \cap s2c[d][j].ops = {}
            /\ s2c[d][i].kind = "delta" =>
                   /\ \E k \in DOMAIN sinceSnapshot : sinceSnapshot[k] = s2c[d][i]
                   /\ ApplyIndex(s2c[d][i]) < ApplyIndex(s2c[d][j])

\* C26 witness: deltas of two different senders are queued for a third
\* connection, which has already taken its full state.
C26_Witness ==
    \E d \in Sessions :
        /\ Len(s2c[d]) = 2
        /\ s2c[d][1].kind = "delta" /\ s2c[d][2].kind = "delta"
        /\ \E o \in s2c[d][1].ops : \E q \in s2c[d][2].ops : o[1] # q[1]

\* C27: a session appends a frame to its outbound queue only in a step that
\* starts with its store holding a user edit its Replica lacks, and the frame
\* carries one new operation of its own and none it received; the step that
\* merges an inbound frame sends nothing.
C27_NoEcho ==
    [][\A c \in Sessions :
          /\ (s2c[c] # <<>> /\ s2c'[c] = Tail(s2c[c]) /\ wsconnected'[c]) =>
                 c2s'[c] = c2s[c]
          /\ Len(c2s'[c]) > Len(c2s[c]) =>
                 /\ storeAhead[c]
                 /\ \E o \in (Sessions \X (1..MaxEdits)) \ ydoc[c] :
                        /\ o[1] = c
                        /\ c2s'[c] = Append(c2s[c], [kind |-> "delta", ops |-> {o}])]_vars

\* C27 witness: a connected session that may write has merged another
\* session's operation, its effect has run and cleared the guard, and it has
\* never written to its Replica itself.
C27_Witness ==
    \E c \in Sessions :
        /\ wsconnected[c] /\ HasClient(c) /\ ~IsReadOnly(c)
        /\ ydoc[c] # {}
        /\ \A o \in ydoc[c] : o[1] # c
        /\ ~effectPending[c] /\ ~syncToYjsRef[c]
        /\ c2s[c] = <<>>

\* the operations the sessions have created so far
Created == UNION {ydoc[c] : c \in Sessions}

\* C28: the sessions never create more operations than the users made edits,
\* and from some point on nothing is in flight and no effect is left to run.
C28_Settles ==
    /\ [](Cardinality(Created) <= txCount)
    /\ <>[]Quiescent

\* C28 witness: one user edit has been made, its operation has reached the
\* Room Actor and two other connected sessions, and everything is at rest.
C28_Witness ==
    /\ txCount = 1
    /\ Quiescent
    /\ \E o \in doc : \E c \in Sessions : \E d \in Sessions :
           /\ c # d /\ c # o[1] /\ d # o[1]
           /\ wsconnected[c] /\ wsconnected[d]
           /\ o \in ydoc[c] /\ o \in ydoc[d]

\* C29: every answer of the state endpoint that carries operations of the
\* document went to a user whose role on the project is owner, editor or viewer.
C29_StateOnlyToRoles ==
    \A r \in Reqs :
        (req[r].kind = "state" /\ req[r].body.present /\ req[r].body.ops # {}) =>
            CheckAccess(ProjectId, req[r].user).role \in {"owner", "editor", "viewer"}

\* C30: a client whose effect run has been cleaned up and whose setup has
\* completed is disconnected, whichever of the two came first; and a session
\* has at most one client that is live after its setup completed.
C30_ClientsCleanedUp ==
    \A c \in Sessions :
        /\ \A i \in DOMAIN hook[c] :
               (hook[c][i].cleaned /\ hook[c][i].assigned) => ~hook[c][i].live
        /\ Cardinality({i \in DOMAIN hook[c] : hook[c][i].live /\ hook[c][i].assigned}) <= 1

=============================================================================
